---- MODULE Spec2Model ----
(***************************************************************************)
(* Model of the real-time top-of-book provider                             *)
(* (core/realtime_market_data.py), the market metadata cache               *)
(* (core/market_utils.py) and the best bid/ask order strategy              *)
(* (strategies/best_order.py).                                             *)
(*                                                                         *)
(* Scheduling: everything runs on one asyncio event loop, so a coroutine   *)
(* runs without interruption between two awaits that really suspend.       *)
(* Every action below is one such uninterrupted run.  asyncio.Lock is only *)
(* ever held over code without an await, so `async with self._lock` never  *)
(* suspends and is part of the surrounding step.  CancelledError derives   *)
(* from BaseException (Python >= 3.8): none of the listener's `except`     *)
(* clauses catches it.                                                     *)
(***************************************************************************)
EXTENDS Integers, Sequences, FiniteSets, TLC

\* ---------------------------------------------------------------- bounds
MaxTasks == 3           \* size of the pool of task identities
MaxList  == 2           \* longest market list passed to start/stop
MaxLive  == 2           \* most live tasks when overlapping calls start one more

\* ------------------------------------------------------------ dictionaries
EmptyDict == [k \in {} |-> 0]

Has(d, k) == k \in DOMAIN d

Put(d, k, v) == [x \in (DOMAIN d) \cup {k} |-> IF x = k THEN v ELSE d[x]]

Del(d, k) == [x \in (DOMAIN d) \ {k} |-> d[x]]

\* Optional values: None is the empty sequence, Some(x) a one-element one.
None == << >>

Some(x) == << x >>

\* ----------------------------------------------------------------- markets
Markets == {"BTC", "ETH"}

RawNames == {"btc", "BTC", "ETH"}

\* str.upper() on the market names a caller can pass
Upper(s) == IF s = "btc" THEN "BTC" ELSE s

TaskIds == 1 .. MaxTasks

\* ---------------------------------------------------------------- messages
\* A push message as json.loads sees it.  json = FALSE is an undecodable
\* payload.  b and a are the level lists data.get("b", [{}]) and
\* data.get("a", [{}]): an absent key is the one-element list of an empty
\* level.  In a level, p = "" is an absent or empty price (both falsy) and
\* q = "NA" an absent quantity.  ts = 0 is an absent "ts" key.
Level(p, q) == [p |-> p, q |-> q]

EmptyLevel == Level("", "NA")

Snapshot(m, b, a, ts) ==
    [json |-> TRUE, type |-> "SNAPSHOT", m |-> m, b |-> b, a |-> a, ts |-> ts]

ValidMessages ==
    { Snapshot(m, << Level("100", "3") >>, << Level("101", "NA") >>, 7) : m \in Markets }
    \cup { Snapshot(m, << Level("99", "NA"), Level("98", "1") >>, << Level("100", "2") >>, 0) : m \in Markets }
    \cup { Snapshot(m, << Level("0", "1") >>, << Level("100", "1") >>, 8) : m \in Markets }

InvalidMessages ==
    { [json |-> FALSE, type |-> "", m |-> "", b |-> << >>, a |-> << >>, ts |-> 0],
      [json |-> TRUE, type |-> "DELTA", m |-> "BTC",
       b |-> << Level("55", "1") >>, a |-> << Level("56", "1") >>, ts |-> 9],
      Snapshot("BTC", << Level("55", "1") >>, << Level("", "1") >>, 9),
      Snapshot("ETH", << EmptyLevel >>, << Level("56", "1") >>, 9),
      Snapshot("BTC", << >>, << Level("56", "1") >>, 9) }

Messages == ValidMessages \cup InvalidMessages

\* best.get("q", "0")
Qty(level) == IF level.q = "NA" THEN "0" ELSE level.q

\* What the receive loop does with one message (lines 42-70):
\*   "decode"  json.JSONDecodeError: logged, the loop continues
\*   "skip"    not a snapshot of this market: ignored
\*   "error"   [0] of an empty level list raises IndexError: any other
\*             exception, sleep(5) and leave the connection
\*   "noprice" snapshot without a bid or an ask price: logged
\*   "quote"   both prices present
\* mutant: a snapshot of the market is stored whatever its prices are
ClassifyWithoutPrices(msg, market) ==
    IF ~msg.json THEN "decode"
    ELSE IF ~(msg.type = "SNAPSHOT" /\ msg.m = market) THEN "skip"
    ELSE IF Len(msg.b) = 0 \/ Len(msg.a) = 0 THEN "error"
    ELSE "quote"

Classify(msg, market) ==
    IF ~msg.json THEN "decode"
    ELSE IF ~(msg.type = "SNAPSHOT" /\ msg.m = market) THEN "skip"
    ELSE IF Len(msg.b) = 0 \/ Len(msg.a) = 0 THEN "error"
    ELSE IF msg.b[1].p # "" /\ msg.a[1].p # "" THEN "quote"
    ELSE "noprice"

\* the dictionary stored at lines 52-58
QuoteOf(msg, clock) ==
    [bid_price |-> msg.b[1].p,
     bid_qty   |-> Qty(msg.b[1]),
     ask_price |-> msg.a[1].p,
     ask_qty   |-> Qty(msg.a[1]),
     timestamp |-> IF msg.ts = 0 THEN clock * 1000 ELSE msg.ts]

\* ------------------------------------------------------------------- state
VARIABLES
    running,    \* RealTimeMarketDataProvider._running
    active,     \* _active_market_listeners: market -> BOOLEAN
    data,       \* _latest_market_data: market -> quote
    conns,      \* _market_connections: market -> the task whose connection it is
    reg,        \* _connection_tasks: market -> task
    tasks,      \* the asyncio tasks running _listen_to_market_stream
    call,       \* the provider call each caller is suspended in
    received,   \* market -> the last valid message received since activation
    ev,         \* the provider call that returned in the last step, if any
    now,        \* time.time(), in seconds
    mcache,     \* MarketUtils._market_cache: name -> market object
    mts,        \* MarketUtils._cache_timestamps: name -> time of the fetch
    morder,     \* the insertion order of _market_cache
    req,        \* the MarketUtils or strategy call each caller is suspended in
    out         \* the MarketUtils or strategy call that returned in the last step

provider == << running, active, data, conns, reg, tasks, received >>

meta == << mcache, mts, morder >>

\* A task: its market, where its coroutine is suspended, whether cancel()
\* was requested and not yet delivered, and the state of the connection it
\* opened last.
\*   pc: "unused"      no such task
\*       "new"         created, not yet run
\*       "connecting"  in websockets.connect (line 35)
\*       "recv"        in websocket.recv (line 41)
\*       "sleep5"      in asyncio.sleep(5) (line 69)
\*       "leaving"     in the close awaited on leaving the connection block
\*       "sleep10"     in asyncio.sleep(10) (line 78)
\*       "done"        finished (returned or cancelled)
\*   ws: "none", "open", "closing" (close() called by a stopper), "closed"
Unused == [m |-> "", pc |-> "unused", cancel |-> FALSE, ws |-> "none"]

NewTask(m) == [m |-> m, pc |-> "new", cancel |-> FALSE, ws |-> "none"]

Finished(m) == [m |-> m, pc |-> "done", cancel |-> FALSE, ws |-> "none"]

\* Task.done()
Done(task) == task.pc = "done"

Live(task) == task.pc \notin {"unused", "done"}

\* The provider's fields as one record, so that the loops of a call can be
\* written as operators over it.
Prov == [running |-> running, active |-> active, data |-> data, conns |-> conns,
         reg |-> reg, tasks |-> tasks, received |-> received, ok |-> TRUE]

Install(S) ==
    /\ running' = S.running
    /\ active' = S.active
    /\ data' = S.data
    /\ conns' = S.conns
    /\ reg' = S.reg
    /\ tasks' = S.tasks
    /\ received' = S.received

\* self._active_market_listeners.get(market_name, False)
IsActive(S, m) == Has(S.active, m) /\ S.active[m]

\* the loop conditions at lines 32, 39 and 77
ShouldRun(S, m) == S.running /\ IsActive(S, m)

\* A caller between calls.
Idle == [op |-> "idle", pc |-> "", ms |-> << >>, i |-> 0, wait |-> {}, n |-> 0, conn |-> 0]

Callers == {1, 2}

\* the markets of an argument list, as the calls normalise them
MarketsOf(ms) == { Upper(ms[k]) : k \in 1 .. Len(ms) }

\* A returned call: its name, the markets of its argument, the number of
\* tasks it spawned or cancelled, and for a start the markets it found with
\* a flag that a stop had cleared.
Event(op, ms, n) == [op |-> op, ms |-> MarketsOf(ms), n |-> n, again |-> {}]

NoEvent == Event("none", << >>, 0)

\* A caller with no MarketUtils or strategy call in progress; a call in
\* progress keeps the locals of its coroutine: the market, side and amount it
\* was called with, the number of bulk fetches it issued, and for execute the
\* market object and the quote read, the quantity computed, the arguments
\* of place_order and the number of place_order calls that are over.
NoReq == [op |-> "idle", pc |-> "", m |-> "", side |-> "", amount |-> "", top |-> 0,
          fetches |-> 0, hit |-> FALSE, cfg |-> None, read |-> FALSE, quote |-> None,
          qty |-> None, order |-> None, placed |-> 0]

\* A returned MarketUtils or strategy call with locals r: its name, its
\* market and side (or top_n), the number of bulk fetches it issued, whether it found
\* a fresh entry, the market object execute got, whether it read the quote
\* store and what it read, the quantity it computed, its
\* return value (None, or the object, list or order id returned), the
\* message it logged last and the number of place_order calls it made.
Out(r, ret, log, placed) ==
    [op |-> r.op, m |-> r.m, side |-> r.side, top |-> r.top,
     fetches |-> r.fetches, hit |-> r.hit,
     cfg |-> r.cfg, read |-> r.read, quote |-> r.quote, qty |-> r.qty,
     ret |-> ret, log |-> log, placed |-> placed]

NoOut == Out([NoReq EXCEPT !.op = "none"], None, "", 0)

Silent == ev' = NoEvent /\ out' = NoOut

Returns(e) == ev' = e /\ out' = NoOut

\* Task identities are reused: a finished task nothing refers to any more
\* (the registries, or a caller awaiting it) is forgotten.
Referenced(S, waiting) ==
    { S.reg[m] : m \in DOMAIN S.reg } \cup { S.conns[m] : m \in DOMAIN S.conns } \cup waiting

Forget(S, waiting) ==
    [S EXCEPT !.tasks = [t \in TaskIds |->
        IF Done(S.tasks[t]) /\ t \notin Referenced(S, waiting) THEN Unused ELSE S.tasks[t]]]

Waiting(c) == UNION { c[k].wait : k \in Callers }

FreeIds(S) == { t \in TaskIds : S.tasks[t].pc = "unused" }

Min(set) == CHOOSE x \in set : \A y \in set : x <= y

\* ------------------------------------------ _listen_to_market_stream steps
\* lines 83-88: the listener's own cleanup, then the task is finished
Cleanup(S, t) ==
    LET m == S.tasks[t].m
    IN [S EXCEPT !.conns = Del(@, m),
                 !.data = Del(@, m),
                 !.tasks[t] = Finished(m)]

\* mutant: one connection attempt, the task ends after its first backoff
LoopHeadOnce(S, t) ==
    IF ShouldRun(S, S.tasks[t].m) /\ S.tasks[t].pc = "new"
    THEN [S EXCEPT !.tasks[t].pc = "connecting"]
    ELSE Cleanup(S, t)

\* line 32: the head of the outer loop
LoopHead(S, t) ==
    IF ShouldRun(S, S.tasks[t].m)
    THEN [S EXCEPT !.tasks[t].pc = "connecting"]
    ELSE Cleanup(S, t)

\* lines 72-81 giving the market up after a failure
AfterConnectionGivesUp(S, t) ==
    Cleanup([S EXCEPT !.active = Put(@, S.tasks[t].m, FALSE)], t)

\* mutant: a lost connection or failed attempt drops the quote of the market
AfterConnectionClearsQuote(S, t) ==
    IF ShouldRun(S, S.tasks[t].m)
    THEN [S EXCEPT !.tasks[t].pc = "sleep10", !.data = Del(@, S.tasks[t].m)]
    ELSE Cleanup(S, t)

\* lines 72-81: after the connection block was left or failed to open
AfterConnection(S, t) ==
    IF ShouldRun(S, S.tasks[t].m)
    THEN [S EXCEPT !.tasks[t].pc = "sleep10"]
    ELSE Cleanup(S, t)

\* leaving `async with websockets.connect(url)`: the block awaits the close
\* of a connection that is not closed yet, and goes on at once otherwise
LeaveConnection(S, t) ==
    IF S.tasks[t].ws \in {"open", "closing"}
    THEN [S EXCEPT !.tasks[t].pc = "leaving", !.tasks[t].ws = "closing"]
    ELSE AfterConnection(S, t)

\* line 39: the head of the receive loop
ReceiveLoopHead(S, t) ==
    IF ShouldRun(S, S.tasks[t].m)
    THEN [S EXCEPT !.tasks[t].pc = "recv"]
    ELSE LeaveConnection(S, t)

\* lines 50-58 without the test of line 51
StoreQuoteUnchecked(S, m, quote) == [S EXCEPT !.data = Put(@, m, quote)]

\* mutant: the first quote of a market is kept, later ones are dropped
StoreQuoteOnce(S, m, quote) ==
    IF IsActive(S, m) /\ ~Has(S.data, m) THEN [S EXCEPT !.data = Put(@, m, quote)] ELSE S

\* lines 50-58: the write under the lock, only if the market is still active
StoreQuote(S, m, quote) ==
    IF IsActive(S, m) THEN [S EXCEPT !.data = Put(@, m, quote)] ELSE S

\* lines 42-70: one received message
Process(S, t, msg, clock) ==
    LET m == S.tasks[t].m
        kind == Classify(msg, m)
    IN IF kind = "quote"
       THEN ReceiveLoopHead(
                [StoreQuote(S, m, QuoteOf(msg, clock))
                    EXCEPT !.received = Put(@, m, msg)], t)
       ELSE IF kind = "error"
       THEN [S EXCEPT !.tasks[t].pc = "sleep5"]
       ELSE ReceiveLoopHead(S, t)

\* A step of task t that is not cancelled: S is the provider after it.
TaskStep(t, S) ==
    /\ Install(Forget(S, Waiting(call)))
    /\ UNCHANGED << call, now, meta, req >>
    /\ Silent

Runnable(t, pc) == tasks[t].pc = pc /\ ~tasks[t].cancel

\* the task's first run
TaskStart(t) ==
    /\ Runnable(t, "new")
    /\ TaskStep(t, LoopHead(Prov, t))

\* websockets.connect succeeded: lines 35-39
ConnectOK(t) ==
    /\ Runnable(t, "connecting")
    /\ TaskStep(t, ReceiveLoopHead(
            [Prov EXCEPT !.conns = Put(@, tasks[t].m, t), !.tasks[t].ws = "open"], t))

\* websockets.connect raised: lines 72-75
ConnectFail(t) ==
    /\ Runnable(t, "connecting")
    /\ TaskStep(t, AfterConnection(Prov, t))

\* websocket.recv returned a message; a quote that line 51 finds no longer
\* wanted is reported as skipped
Receive(t, msg) ==
    /\ Runnable(t, "recv")
    /\ tasks[t].ws \in {"open", "closing"}
    /\ Install(Forget(Process(Prov, t, msg, now), Waiting(call)))
    /\ UNCHANGED << call, now, meta, req >>
    /\ IF Classify(msg, tasks[t].m) = "quote" /\ ~IsActive(Prov, tasks[t].m)
       THEN Returns(Event("skipped", << tasks[t].m >>, 0))
       ELSE Silent

\* websocket.recv raised ConnectionClosed: lines 62-64
ConnectionClosed(t) ==
    /\ Runnable(t, "recv")
    /\ tasks[t].ws = "closed"
    /\ TaskStep(t, AfterConnection(Prov, t))

\* asyncio.sleep(5) returned: line 70 leaves the connection block
Sleep5Wake(t) ==
    /\ Runnable(t, "sleep5")
    /\ TaskStep(t, LeaveConnection(Prov, t))

\* the close awaited on leaving the connection block is over
LeaveDone(t) ==
    /\ Runnable(t, "leaving")
    /\ TaskStep(t, AfterConnection([Prov EXCEPT !.tasks[t].ws = "closed"], t))

\* asyncio.sleep(10) returned
Sleep10Wake(t) ==
    /\ Runnable(t, "sleep10")
    /\ TaskStep(t, LoopHead(Prov, t))

\* The pending CancelledError is thrown into the coroutine where it is
\* suspended (or before its first run).  No handler of the listener catches
\* it: the connection block, if entered, closes the connection, and the task
\* ends without running lines 83-88.
Cancelled(t) ==
    /\ Live(tasks[t])
    /\ tasks[t].cancel
    /\ TaskStep(t, [Prov EXCEPT !.tasks[t] = Finished(tasks[t].m)])

\* The peer or the network ends the connection.
Drop(t) ==
    /\ tasks[t].pc \in {"recv", "sleep5"}
    /\ tasks[t].ws \in {"open", "closing"}
    /\ TaskStep(t, [Prov EXCEPT !.tasks[t].ws = "closed"])

\* ------------------------------------------------------------ start_streams
\* mutant: a task is created whether or not one is running
SpawnAlways(S, m) == TRUE

\* line 98 without the test for a finished task
ShouldSpawnIfAbsent(S, m) == ~Has(S.reg, m)

\* line 98: no task for the market, or its task is finished
ShouldSpawn(S, m) == ~Has(S.reg, m) \/ Done(S.tasks[S.reg[m]])

\* lines 100-101: asyncio.create_task and its registration.  The identity of
\* the replaced (finished) task becomes free if nothing else refers to it.
\* ok = FALSE reports that the pool of identities is exhausted.
Spawn(S, m, waiting) ==
    LET S0 == Forget([S EXCEPT !.reg = Del(@, m)], waiting)
    IN IF FreeIds(S0) = {}
       THEN [S EXCEPT !.ok = FALSE]
       ELSE [S0 EXCEPT !.tasks[Min(FreeIds(S0))] = NewTask(m),
                       !.reg = Put(@, m, Min(FreeIds(S0)))]

\* line 96, and the start of a new period of activity for the history
Activate(S, m) ==
    [S EXCEPT !.active = Put(@, m, TRUE),
              !.received = IF IsActive(S, m) THEN @ ELSE Del(@, m)]

\* lines 94-104
RECURSIVE StartLoop(_, _, _, _)
StartLoop(S, ms, i, waiting) ==
    IF i > Len(ms) THEN S
    ELSE LET m == Upper(ms[i])
             S1 == Activate(S, m)
         IN StartLoop(IF ShouldSpawn(S1, m) THEN Spawn(S1, m, waiting) ELSE S1,
                      ms, i + 1, waiting)

Spawned(S, T) == Cardinality({ t \in TaskIds : T.tasks[t].pc = "new" /\ S.tasks[t].pc # "new" })

StartStreams(c, ms) ==
    LET S == StartLoop([Prov EXCEPT !.running = TRUE], ms, 1, Waiting(call))
    IN /\ call[c] = Idle
       /\ S.ok
       /\ Install(S)
       /\ Returns([Event("start", ms, Spawned(Prov, S)) EXCEPT
                       !.again = { m \in MarketsOf(ms) : Has(active, m) /\ ~active[m] }])
       /\ UNCHANGED << call, now, meta, req >>

\* ----------------------------------------------------- stop_specific_streams
\* `not conn.closed` for the connection registered for m
ConnNotClosed(S, m) == Has(S.conns, m) /\ S.tasks[S.conns[m]].ws \in {"open", "closing"}

\* line 118 clearing the flag of every market
StopRequestEvery(S, m) ==
    LET S1 == [S EXCEPT !.active = [x \in DOMAIN S.active \cup {m} |-> FALSE]]
    IN IF Has(S1.reg, m) /\ ~Done(S1.tasks[S1.reg[m]])
       THEN [S1 EXCEPT !.tasks[S1.reg[m]].cancel = TRUE]
       ELSE S1

\* lines 118-124: clear the flag, cancel the task if it is not done
StopRequest(S, m) ==
    LET S1 == [S EXCEPT !.active = Put(@, m, FALSE)]
    IN IF Has(S1.reg, m) /\ ~Done(S1.tasks[S1.reg[m]])
       THEN [S1 EXCEPT !.tasks[S1.reg[m]].cancel = TRUE]
       ELSE S1

StopCancels(S, m) == Has(S.reg, m) /\ ~Done(S.tasks[S.reg[m]])

\* mutant: the stop forgets to delete the quote
StopLockedKeepsQuote(S, m) == [S EXCEPT !.conns = Del(@, m)]

\* lines 136-141: under the lock
StopLocked(S, m) == [S EXCEPT !.data = Del(@, m), !.conns = Del(@, m)]

\* lines 116-141 from the i-th market on, up to the first `await conn.close()`
\* that suspends (pc "closing") or to the end of the list (pc "looped").
\* wait and n are stopped_market_tasks as a set and its length.
RECURSIVE StopLoop(_, _, _, _, _)
StopLoop(S, ms, i, wait, n) ==
    IF i > Len(ms)
    THEN [S |-> S, pc |-> "looped", i |-> i, wait |-> wait, n |-> n, conn |-> 0]
    ELSE LET m == Upper(ms[i])
             S1 == StopRequest(S, m)
             wait1 == IF StopCancels(S, m) THEN wait \cup {S.reg[m]} ELSE wait
             n1 == IF StopCancels(S, m) THEN n + 1 ELSE n
         IN IF ConnNotClosed(S1, m)
            THEN [S |-> [S1 EXCEPT !.tasks[S1.conns[m]].ws = "closing"],
                  pc |-> "closing", i |-> i, wait |-> wait1, n |-> n1, conn |-> S1.conns[m]]
            ELSE StopLoop(StopLocked(S1, m), ms, i + 1, wait1, n1)

\* lines 145-152: zip(markets_to_stop, results) pairs the k-th market of the
\* argument with the k-th awaited task
RECURSIVE StopUnregister(_, _, _, _)
StopUnregister(S, ms, k, n) ==
    IF k > Len(ms) \/ k > n THEN S
    ELSE StopUnregister([S EXCEPT !.reg = Del(@, Upper(ms[k]))], ms, k + 1, n)

\* The stop call of caller c goes on from the result R of its loop: it is
\* suspended in conn.close(), suspended in gather (line 144) or returns.
StopContinue(c, ms, R) ==
    IF R.pc = "closing" \/ R.n > 0
    THEN /\ call' = [call EXCEPT ![c] =
                [op |-> "stop", pc |-> IF R.pc = "closing" THEN "closing" ELSE "gather",
                 ms |-> ms, i |-> R.i, wait |-> R.wait, n |-> R.n, conn |-> R.conn]]
         /\ Install(R.S)
         /\ Silent
    ELSE /\ call' = [call EXCEPT ![c] = Idle]
         /\ Install(Forget(R.S, Waiting([call EXCEPT ![c] = Idle])))
         /\ Returns(Event("stop", ms, 0))

StopStreams(c, ms) ==
    /\ call[c] = Idle
    /\ StopContinue(c, ms, StopLoop(Prov, ms, 1, {}, 0))
    /\ UNCHANGED << now, meta, req >>

\* conn.close() returned: the connection is closed
ConnClosedBy(S, t) ==
    IF S.tasks[t].ws = "closing" THEN [S EXCEPT !.tasks[t].ws = "closed"] ELSE S

\* line 132 returned; lines 136-141 for this market, then the rest of the loop
StopCloseDone(c) ==
    /\ call[c].op = "stop"
    /\ call[c].pc = "closing"
    /\ StopContinue(c, call[c].ms,
            StopLoop(StopLocked(ConnClosedBy(Prov, call[c].conn), Upper(call[c].ms[call[c].i])),
                     call[c].ms, call[c].i + 1, call[c].wait, call[c].n))
    /\ UNCHANGED << now, meta, req >>

\* mutant: the stop does not wait for the tasks it cancelled
AllDoneUnawaited(S, wait) == TRUE

AllDone(S, wait) == \A t \in wait : Done(S.tasks[t])

\* line 144 returned: every awaited task is done
StopGatherDone(c) ==
    /\ call[c].op = "stop"
    /\ call[c].pc = "gather"
    /\ AllDone(Prov, call[c].wait)
    /\ call' = [call EXCEPT ![c] = Idle]
    /\ Install(Forget(StopUnregister(Prov, call[c].ms, 1, call[c].n),
                      Waiting([call EXCEPT ![c] = Idle])))
    /\ Returns(Event("stop", call[c].ms, call[c].n))
    /\ UNCHANGED << now, meta, req >>

\* ------------------------------------------------------------ close_streams
\* the tasks of the registry that are not done (line 173)
LiveRegistered(S) == { S.reg[m] : m \in { x \in DOMAIN S.reg : ~Done(S.tasks[S.reg[x]]) } }

\* lines 168-176: clear the flags, cancel every registered task not done
CloseRequest(S) ==
    [S EXCEPT !.running = FALSE,
              !.active = EmptyDict,
              !.tasks = [t \in TaskIds |->
                  IF t \in LiveRegistered(S) THEN [S.tasks[t] EXCEPT !.cancel = TRUE]
                  ELSE S.tasks[t]]]

\* mutant: the shutdown forgets to clear the quotes
CloseClearKeepsQuotes(S) == [S EXCEPT !.conns = EmptyDict, !.reg = EmptyDict]

\* lines 189-192
CloseClear(S) == [S EXCEPT !.conns = EmptyDict, !.reg = EmptyDict, !.data = EmptyDict]

\* the connections of a snapshot of the registry that are not closed (line 183)
NotClosed(S, wss) == { t \in wss : S.tasks[t].ws \in {"open", "closing"} }

\* Lines 181-192 with wss the connections of list(self._market_connections
\* .items()) still to visit: the call is suspended in ws.close() of one that
\* is not closed, or it clears the registries and returns.  n is the number
\* of tasks the call cancelled.
CloseContinue(c, S, wss, n) ==
    IF NotClosed(S, wss) # {}
    THEN /\ call' = [call EXCEPT ![c] =
                [op |-> "close", pc |-> "closing", ms |-> << >>, i |-> 0,
                 wait |-> wss \ {Min(NotClosed(S, wss))}, n |-> n,
                 conn |-> Min(NotClosed(S, wss))]]
         /\ Install([S EXCEPT !.tasks[Min(NotClosed(S, wss))].ws = "closing"])
         /\ Silent
    ELSE /\ call' = [call EXCEPT ![c] = Idle]
         /\ Install(Forget(CloseClear(S), Waiting([call EXCEPT ![c] = Idle])))
         /\ Returns(Event("close", << >>, n))

Registered(S) == { S.conns[m] : m \in DOMAIN S.conns }

CloseStreams(c) ==
    /\ call[c] = Idle
    /\ IF LiveRegistered(Prov) # {}
       THEN /\ call' = [call EXCEPT ![c] =
                   [op |-> "close", pc |-> "gather", ms |-> << >>, i |-> 0,
                    wait |-> LiveRegistered(Prov),
                    n |-> Cardinality(LiveRegistered(Prov)), conn |-> 0]]
            /\ Install(CloseRequest(Prov))
            /\ Silent
       ELSE CloseContinue(c, CloseRequest(Prov), Registered(Prov), 0)
    /\ UNCHANGED << now, meta, req >>

\* line 179 returned: every cancelled task is done
CloseGatherDone(c) ==
    /\ call[c].op = "close"
    /\ call[c].pc = "gather"
    /\ AllDone(Prov, call[c].wait)
    /\ CloseContinue(c, Prov, Registered(Prov), call[c].n)
    /\ UNCHANGED << now, meta, req >>

\* line 185 returned
CloseWsDone(c) ==
    /\ call[c].op = "close"
    /\ call[c].pc = "closing"
    /\ CloseContinue(c, ConnClosedBy(Prov, call[c].conn), call[c].wait, call[c].n)
    /\ UNCHANGED << now, meta, req >>

\* --------------------------------------------------- queries of the provider
\* get_best_bid_ask answering a market without an entry with a quote
GetBestBidAskOrDefault(raw) ==
    IF Has(data, Upper(raw)) THEN Some(data[Upper(raw)])
    ELSE Some(QuoteOf(CHOOSE msg \in ValidMessages : msg.m = Upper(raw), now))

\* get_best_bid_ask: the stored quote, or None
GetBestBidAsk(raw) == IF Has(data, Upper(raw)) THEN Some(data[Upper(raw)]) ELSE None

\* get_active_streams
GetActiveStreams == { m \in DOMAIN active : active[m] }

\* ------------------------------------------------------------- market_utils
CACHE_DURATION_SECONDS == 60

\* A market object of the metadata source.  cfg is None when the object has
\* no trading_config attribute; vol is market_stats.daily_volume as sent
\* ("" when it is missing) and last is market_stats.last_price.
Market(name, min, step, vol, last) ==
    [name |-> name,
     cfg |-> Some([min_order_size |-> min, min_order_size_change |-> step]),
     vol |-> vol, last |-> last]

MarketNoConfig(name, vol, last) == [name |-> name, cfg |-> None, vol |-> vol, last |-> last]

\* markets_response.data of trading_client.markets_info.get_markets()
Responses ==
    { << Market("BTC", "1", "0.01", "500", "55"), Market("ETH", "1", "1", "900", "56") >>,
      << MarketNoConfig("ETH", "0", "56"), Market("BTC", "1", "0.5", "x", "55") >>,
      << Market("BTC", "1", "1", "", "55") >> }

\* The cache of MarketUtils as one record; order is the insertion order of
\* _market_cache.
Meta == [cache |-> mcache, ts |-> mts, order |-> morder]

InstallMeta(C) ==
    /\ mcache' = C.cache
    /\ mts' = C.ts
    /\ morder' = C.order

\* lines 31-33: every fetched market is stored with the time of the fetch
RECURSIVE CacheAll(_, _, _, _)
CacheAll(C, resp, i, clock) ==
    IF i > Len(resp) THEN C
    ELSE CacheAll([cache |-> Put(C.cache, resp[i].name, resp[i]),
                   ts |-> Put(C.ts, resp[i].name, clock),
                   order |-> IF Has(C.cache, resp[i].name) THEN C.order
                             ELSE Append(C.order, resp[i].name)],
                  resp, i + 1, clock)

\* self._market_cache.get(market_name)
Lookup(C, name) == IF Has(C.cache, name) THEN Some(C.cache[name]) ELSE None

\* line 51 read the entry before the fetch instead of after it
FinalMarketBeforeFetch(C, name) == Lookup(Meta, name)

\* line 51: the entry is read again once the fetch is over
FinalMarket(C, name) == Lookup(C, name)

\* line 43 with <= for <
FreshUpToDuration(C, name, clock) ==
    /\ Has(C.cache, name)
    /\ Has(C.ts, name)
    /\ C.ts[name] # 0
    /\ clock - C.ts[name] <= CACHE_DURATION_SECONDS

\* line 43: an entry and a (non-zero) timestamp younger than the duration
Fresh(C, name, clock) ==
    /\ Has(C.cache, name)
    /\ Has(C.ts, name)
    /\ C.ts[name] # 0
    /\ clock - C.ts[name] < CACHE_DURATION_SECONDS

\* lines 59-65: get_markets fetches only if the cache and the timestamps are
\* both non-empty and no timestamp is younger than the duration; the branch
\* of line 63 is inside `if self._market_cache` and never taken
NeedsRefresh(C, clock) ==
    /\ DOMAIN C.cache # {}
    /\ DOMAIN C.ts # {}
    /\ ~ \E name \in DOMAIN C.ts : clock - C.ts[name] < CACHE_DURATION_SECONDS

\* float(m.market_stats.daily_volume): -1 stands for the ValueError or
\* TypeError of a volume that is unparseable or missing
VolumeOf(market) ==
    CASE market.vol = "500" -> 500
      [] market.vol = "900" -> 900
      [] market.vol = "0" -> 0
      [] OTHER -> -1

\* list(self._market_cache.values())
RECURSIVE Values(_, _)
Values(C, i) ==
    IF i > Len(C.order) THEN << >>
    ELSE << C.cache[C.order[i]] >> \o Values(C, i + 1)

\* lines 75-80: the markets whose volume float() accepts
RECURSIVE Parseable(_)
Parseable(list) ==
    IF list = << >> THEN << >>
    ELSE IF VolumeOf(Head(list)) >= 0 THEN << Head(list) >> \o Parseable(Tail(list))
    ELSE Parseable(Tail(list))

\* list.sort(key = volume, reverse = True): stable, descending
RECURSIVE InsertByVolume(_, _)
InsertByVolume(sorted, market) ==
    IF sorted = << >> THEN << market >>
    ELSE IF VolumeOf(Head(sorted)) >= VolumeOf(market)
    THEN << Head(sorted) >> \o InsertByVolume(Tail(sorted), market)
    ELSE << market >> \o sorted

RECURSIVE SortByVolume(_)
SortByVolume(list) ==
    IF list = << >> THEN << >>
    ELSE InsertByVolume(SortByVolume(SubSeq(list, 1, Len(list) - 1)), list[Len(list)])

Prefix(list, n) == SubSeq(list, 1, IF n < Len(list) THEN n ELSE Len(list))

\* lines 67-85: the answer of get_markets; top = -1 stands for top_n = None
MarketsList(C, top) ==
    IF top = -1 THEN Values(C, 1)
    ELSE Prefix(SortByVolume(Parseable(Values(C, 1))), top)

Tops == {-1, 1, 2}

\* a call of caller c may begin
Free(c) == call[c] = Idle /\ req[c] = NoReq

\* the call of caller c returns
Return(c, r, ret, log, placed) ==
    /\ req' = [req EXCEPT ![c] = NoReq]
    /\ out' = Out(r, ret, log, placed)
    /\ ev' = NoEvent

\* the call of caller c is suspended
Suspend(c, r) ==
    /\ req' = [req EXCEPT ![c] = r]
    /\ out' = NoOut
    /\ ev' = NoEvent

\* get_market_object, lines 40-48: a fresh entry is returned, anything else
\* awaits _fetch_and_cache_all_markets
GetMarketObject(c, name) ==
    /\ Free(c)
    /\ IF Fresh(Meta, name, now)
       THEN Return(c,
                   [NoReq EXCEPT !.op = "get_market_object", !.m = name, !.hit = TRUE],
                   Lookup(Meta, name), "", 0)
       ELSE Suspend(c, [NoReq EXCEPT !.op = "get_market_object", !.pc = "fetching",
                                     !.m = name, !.fetches = 1])
    /\ UNCHANGED << provider, call, now, meta >>

\* get_markets, lines 58-65
GetMarkets(c, top) ==
    /\ Free(c)
    /\ IF NeedsRefresh(Meta, now)
       THEN Suspend(c, [NoReq EXCEPT !.op = "get_markets", !.pc = "fetching",
                                     !.top = top, !.fetches = 1])
       ELSE Return(c, [NoReq EXCEPT !.op = "get_markets", !.top = top],
                   Some(MarketsList(Meta, top)), "", 0)
    /\ UNCHANGED << provider, call, now, meta >>

\* ------------------------------------------------------------- best_order
\* A decimal.Decimal: coefficient c and exponent e, the value c * 10^e.
Dec(c, e) == [c |-> c, e |-> e]

\* Decimal(str(x)) for the prices of the messages, the sizes of the market
\* objects and str() of the float amounts used below
DecOf(s) ==
    CASE s = "0" -> Dec(0, 0)
      [] s = "1" -> Dec(1, 0)
      [] s = "99" -> Dec(99, 0)
      [] s = "100" -> Dec(100, 0)
      [] s = "101" -> Dec(101, 0)
      [] s = "55" -> Dec(55, 0)
      [] s = "56" -> Dec(56, 0)
      [] s = "0.5" -> Dec(5, -1)
      [] s = "0.01" -> Dec(1, -2)
      [] s = "50.0" -> Dec(500, -1)
      [] s = "60.0" -> Dec(600, -1)
      [] s = "1000.0" -> Dec(10000, -1)

RECURSIVE Pow10(_)
Pow10(n) == IF n <= 0 THEN 1 ELSE 10 * Pow10(n - 1)

\* num / den rounded to an integer, ties to even (ROUND_HALF_EVEN, the
\* rounding of the default decimal context); num >= 0, den > 0
RoundHalfEven(num, den) ==
    LET q == num \div den
        r == num % den
    IN IF 2 * r < den THEN q
       ELSE IF 2 * r > den THEN q + 1
       ELSE IF q % 2 = 0 THEN q ELSE q + 1

\* (a / b).quantize(step): the quotient rounded to the exponent of step.
\* None stands for the exception of a division by zero.  The quotient is
\* taken exactly; the 28 digits of the decimal context are more than the
\* values of this model need.
DivQuantize(a, b, step) ==
    IF b.c = 0 THEN None
    ELSE LET shift == a.e - b.e - step.e
         IN Some(Dec(RoundHalfEven(a.c * Pow10(shift), b.c * Pow10(0 - shift)), step.e))

\* a < b
DecLess(a, b) == a.c * Pow10(a.e - b.e) < b.c * Pow10(b.e - a.e)

\* str.lower() on the side strings a caller can pass
Sides == {"bb", "BUY", "BA", "sell", "long"}

Lower(s) == CASE s = "BUY" -> "buy" [] s = "BA" -> "ba" [] OTHER -> s

IsBuy(side) == Lower(side) \in {"bb", "buy"}

\* line 48 as a plain else
IsSellOrOther(side) == ~IsBuy(side)

IsSell(side) == Lower(side) \in {"ba", "sell"}

Amounts == {"50.0", "60.0", "1000.0"}

\* lines 40-61: the price of the order, None when the side of the book has
\* no price; the side is a buy or a sell alias
SelectPrice(quote, side) ==
    IF IsBuy(side)
    THEN IF quote.bid_price # "" THEN Some(DecOf(quote.bid_price)) ELSE None
    ELSE IF quote.ask_price # "" THEN Some(DecOf(quote.ask_price)) ELSE None

\* line 68
Quantity(amount, price, config) ==
    DivQuantize(DecOf(amount), price, DecOf(config.min_order_size_change))

\* line 70 never rejecting
BelowMinimumNever(quantity, config) == FALSE

\* line 70
BelowMinimum(quantity, config) == DecLess(quantity, DecOf(config.min_order_size))

\* the arguments of trading_client.place_order, lines 75-81
Order(market, quantity, price, side) ==
    [market_name |-> market, amount_of_synthetic |-> quantity, price |-> price,
     side |-> IF IsBuy(side) THEN "BUY" ELSE "SELL", post_only |-> TRUE]

Plan(log, qty, order) == [log |-> log, qty |-> qty, order |-> order]

\* Lines 34-81 of execute once the market object is known: r holds the
\* arguments, config is the market object or None, quote the result of
\* get_best_bid_ask.  The plan is the order to place, or the error logged
\* before `return None`:
\*   "ConfigurationUnavailable" line 31, "QuoteUnavailable" lines 37, 46
\*   and 53, "InvalidSide" line 56, "BelowMinimumSize" line 71, and
\*   "UnexpectedError" for an exception caught at line 87 (line 94).
PlanOrder(r, config, quote) ==
    IF config = None \/ config[1].cfg = None
    THEN Plan("ConfigurationUnavailable", None, None)
    ELSE IF quote = None THEN Plan("QuoteUnavailable", None, None)
    ELSE IF ~IsBuy(r.side) /\ ~IsSell(r.side) THEN Plan("InvalidSide", None, None)
    ELSE IF SelectPrice(quote[1], r.side) = None THEN Plan("QuoteUnavailable", None, None)
    ELSE LET price == SelectPrice(quote[1], r.side)[1]
             quantity == Quantity(r.amount, price, config[1].cfg[1])
         IN IF quantity = None THEN Plan("UnexpectedError", None, None)
            ELSE IF BelowMinimum(quantity[1], config[1].cfg[1])
            THEN Plan("BelowMinimumSize", quantity, None)
            ELSE Plan("", quantity, Some(Order(r.m, quantity[1], price, r.side)))

\* line 35 reached whatever line 30 found
ReadsQuoteAlways(config) == TRUE

\* the quote store is read (line 35) only if line 30 found the configuration
ReadsQuote(config) == config # None /\ config[1].cfg # None

\* execute from line 30 on, for caller c with locals r and market object
\* config: it returns None, or is suspended in place_order
ExecuteWith(c, r, config) ==
    LET quote == IF ReadsQuote(config) THEN GetBestBidAsk(r.m) ELSE None
        plan == PlanOrder(r, config, quote)
        r1 == [r EXCEPT !.cfg = config, !.read = ReadsQuote(config), !.quote = quote,
                        !.qty = plan.qty, !.order = plan.order]
    IN IF plan.order = None
       THEN Return(c, r1, None, plan.log, 0)
       ELSE Suspend(c, [r1 EXCEPT !.pc = "placing"])

\* execute, lines 26-29: get_market_info is get_market_object
Execute(c, market, side, amount) ==
    LET r == [NoReq EXCEPT !.op = "execute", !.m = market, !.side = side, !.amount = amount]
    IN /\ Free(c)
       /\ IF Fresh(Meta, market, now)
          THEN ExecuteWith(c, [r EXCEPT !.hit = TRUE], Lookup(Meta, market))
          ELSE Suspend(c, [r EXCEPT !.pc = "fetching", !.fetches = 1])
       /\ UNCHANGED << provider, call, now, meta >>

\* The bulk fetch of caller c is over and left the cache C: the call goes on
\* after line 48 of get_market_object or line 62 of get_markets.
AfterFetch(c, C) ==
    /\ InstallMeta(C)
    /\ IF req[c].op = "execute"
       THEN ExecuteWith(c, [req[c] EXCEPT !.pc = ""], FinalMarket(C, req[c].m))
       ELSE IF req[c].op = "get_markets"
       THEN Return(c, [req[c] EXCEPT !.pc = ""],
                   Some(MarketsList(C, req[c].top)), "", 0)
       ELSE Return(c, [req[c] EXCEPT !.pc = ""],
                   FinalMarket(C, req[c].m),
                   IF FinalMarket(C, req[c].m) = None THEN "NotFound" ELSE "", 0)
    /\ UNCHANGED << provider, call, now >>

\* _fetch_and_cache_all_markets, lines 29-34: the source answered
FetchReturns(c, resp) ==
    /\ req[c].pc = "fetching"
    /\ AfterFetch(c, CacheAll(Meta, resp, 1, now))

\* mutant: a failed fetch empties the cache
FetchRaisesClearsCache(c) ==
    /\ req[c].pc = "fetching"
    /\ AfterFetch(c, [cache |-> EmptyDict, ts |-> EmptyDict, order |-> << >>])

\* _fetch_and_cache_all_markets, lines 35-36: the source failed, the error
\* is logged and the cache is left as it is
FetchRaises(c) ==
    /\ req[c].pc = "fetching"
    /\ AfterFetch(c, Meta)

\* what place_order can answer: an order, or a rejection by its message
PlaceOutcomes == {"ok", "balance", "precision", "other"}

\* lines 93-95 raising the exception again instead of returning None
PlaceResultReraises(outcome) ==
    CASE outcome = "ok" -> [ret |-> Some("order-id"), log |-> "OrderPlaced"]
      [] outcome = "balance" -> [ret |-> None, log |-> "InsufficientBalance"]
      [] outcome = "precision" -> [ret |-> None, log |-> "PrecisionError"]
      [] OTHER -> [ret |-> Some("exception"), log |-> "Raised"]

\* lines 89-92 missing: every rejection logged by line 94
PlaceResultUnclassified(outcome) ==
    IF outcome = "ok" THEN [ret |-> Some("order-id"), log |-> "OrderPlaced"]
    ELSE [ret |-> None, log |-> "UnexpectedError"]

\* lines 83-95: the order id, or None after the error was logged
PlaceResult(outcome) ==
    CASE outcome = "ok" -> [ret |-> Some("order-id"), log |-> "OrderPlaced"]
      [] outcome = "balance" -> [ret |-> None, log |-> "InsufficientBalance"]
      [] outcome = "precision" -> [ret |-> None, log |-> "PrecisionError"]
      [] OTHER -> [ret |-> None, log |-> "UnexpectedError"]

\* place_order called again after a rejection
PlaceRetriesOnce(c, outcome) ==
    /\ req[c].pc = "placing"
    /\ IF outcome # "ok" /\ req[c].placed = 0
       THEN Suspend(c, [req[c] EXCEPT !.placed = 1])
       ELSE Return(c, [req[c] EXCEPT !.pc = ""],
                   PlaceResult(outcome).ret, PlaceResult(outcome).log, req[c].placed + 1)
    /\ UNCHANGED << provider, call, now, meta >>

\* place_order returned or raised: execute returns, lines 83-95
PlaceReturns(c, outcome) ==
    /\ req[c].pc = "placing"
    /\ Return(c, [req[c] EXCEPT !.pc = ""],
              PlaceResult(outcome).ret, PlaceResult(outcome).log, req[c].placed + 1)
    /\ UNCHANGED << provider, call, now, meta >>

\* ---------------------------------------------------------------------- time
TickSeconds == 30

MaxTime == 91

Tick ==
    /\ now + TickSeconds <= MaxTime
    /\ now' = now + TickSeconds
    /\ Silent
    /\ UNCHANGED << provider, call, meta, req >>

\* the cache duration passes
Expire ==
    /\ now + CACHE_DURATION_SECONDS <= MaxTime
    /\ now' = now + CACHE_DURATION_SECONDS
    /\ Silent
    /\ UNCHANGED << provider, call, meta, req >>

\* ------------------------------------------------------------ specification
Lists == UNION { [1 .. k -> RawNames] : k \in 1 .. MaxList }

StartTime == 1

Init ==
    /\ running = FALSE
    /\ active = EmptyDict
    /\ data = EmptyDict
    /\ conns = EmptyDict
    /\ reg = EmptyDict
    /\ tasks = [t \in TaskIds |-> Unused]
    /\ call = [c \in Callers |-> Idle]
    /\ received = EmptyDict
    /\ ev = NoEvent
    /\ now = StartTime
    /\ mcache = EmptyDict
    /\ mts = EmptyDict
    /\ morder = << >>
    /\ req = [c \in Callers |-> NoReq]
    /\ out = NoOut

\* the callers of the command loop: one call at a time (cli.py, lines 327-330)
Serial == \A c \in Callers : call[c] = Idle /\ req[c] = NoReq

TaskNext ==
    \E t \in TaskIds :
        \/ TaskStart(t)
        \/ ConnectOK(t)
        \/ ConnectFail(t)
        \/ \E msg \in Messages : Receive(t, msg)
        \/ ConnectionClosed(t)
        \/ Sleep5Wake(t)
        \/ LeaveDone(t)
        \/ Sleep10Wake(t)
        \/ Cancelled(t)
        \/ Drop(t)

StreamCalls ==
    \/ Serial /\ \E ms \in Lists : StartStreams(1, ms)
    \/ Serial /\ \E ms \in Lists : StopStreams(1, ms)
    \/ Serial /\ CloseStreams(1)
    \/ StopCloseDone(1)
    \/ StopGatherDone(1)
    \/ CloseGatherDone(1)

Next == TaskNext \/ StreamCalls

vars == << running, active, data, conns, reg, tasks, call, received, ev, now,
          mcache, mts, morder, req, out >>

Spec == Init /\ [][Next]_vars

\* MarketUtils alone, called by coroutines that may overlap
MetaNext ==
    \/ \E c \in Callers, name \in RawNames : GetMarketObject(c, name)
    \/ \E c \in Callers, top \in Tops : GetMarkets(c, top)
    \/ \E c \in Callers, resp \in Responses : FetchReturns(c, resp)
    \/ \E c \in Callers : FetchRaises(c)
    \/ Tick

SpecMeta == Init /\ [][MetaNext]_vars

\* The strategy beside the stream of one market: the `load` and order
\* commands of cli.py, one at a time, with the market names as cli.py
\* normalises them for execute (line 155).  The stream connects, or fails
\* to and retries, and receives quotes; its connection is not lost.
ExecNext ==
    \/ \E t \in TaskIds :
          \/ TaskStart(t)
          \/ ConnectOK(t)
          \/ ConnectFail(t)
          \/ \E msg \in ValidMessages : Receive(t, msg)
          \/ Sleep10Wake(t)
    \/ Serial /\ StartStreams(1, << "btc" >>)
    \/ Serial /\ \E m \in Markets, side \in Sides, amount \in Amounts : Execute(1, m, side, amount)
    \/ \E resp \in Responses : FetchReturns(1, resp)
    \/ FetchRaises(1)
    \/ \E outcome \in PlaceOutcomes : PlaceReturns(1, outcome)
    \/ Expire

SpecExec == Init /\ [][ExecNext]_vars

\* The provider called by coroutines that may overlap: one coroutine stops
\* a market, and another starts it while a stop is suspended.  The market
\* receives one kind of quote and one message that raises, and no start
\* begins while MaxLive tasks are live.
ConcNext ==
    \/ \E t \in TaskIds :
          \/ TaskStart(t)
          \/ ConnectOK(t)
          \/ ConnectFail(t)
          \/ \E msg \in { x \in Messages : x.m = "BTC" /\ (x.ts = 7 \/ x.b = << >>) } :
                Receive(t, msg)
          \/ ConnectionClosed(t)
          \/ Sleep5Wake(t)
          \/ LeaveDone(t)
          \/ Sleep10Wake(t)
          \/ Cancelled(t)
          \/ Drop(t)
    \/ /\ Cardinality({ t \in TaskIds : Live(tasks[t]) }) < MaxLive
       /\ StartStreams(2, << "BTC" >>)
    \/ StopStreams(1, << "btc" >>)
    \/ StopCloseDone(1)
    \/ StopGatherDone(1)

SpecConc == Init /\ [][ConcNext]_vars

\* ------------------------------------------------------------------ claims
LiveTasksOf(m) == { t \in TaskIds : Live(tasks[t]) /\ tasks[t].m = m }

\* C1: at every moment each market has at most one supervising task that has
\* not finished, and when start_streams returns every market of its argument
\* is flagged active and has exactly one such task, the registered one.
C1_OneTaskPerMarket ==
    /\ \A m \in Markets : Cardinality(LiveTasksOf(m)) <= 1
    /\ ev.op = "start" =>
          \A m \in ev.ms : /\ IsActive(Prov, m)
                           /\ Has(reg, m)
                           /\ LiveTasksOf(m) = {reg[m]}

\* start_streams returned without spawning: its market's task was already
\* live and is receiving.
C1_Witness ==
    /\ ev.op = "start"
    /\ ev.n = 0
    /\ \E m \in ev.ms : tasks[reg[m]].pc = "recv"

StopInProgress == \E c \in Callers : call[c].op = "stop"

\* stop_specific_streams set the flag of m and no start or shutdown followed
StoppedMarket(m) == Has(active, m) /\ ~active[m]

\* C2: once stop_specific_streams has returned for m, and until m is started
\* again, get_best_bid_ask(m) returns None.
C2_StoppedHasNoQuote ==
    \A raw \in RawNames :
        (StoppedMarket(Upper(raw)) /\ ~StopInProgress) => GetBestBidAsk(raw) = None

\* a stop that cancelled the task of a market which had received a quote
C2_Witness ==
    /\ ev.op = "stop"
    /\ ev.n >= 1
    /\ \E m \in ev.ms : Has(received, m) /\ StoppedMarket(m) /\ Has(reg, m)

\* C3: when close_streams returns, no market is active, no quote is stored
\* and the task and connection registries are empty.
C3_CloseLeavesNothing ==
    ev.op = "close" =>
        /\ GetActiveStreams = {}
        /\ \A raw \in RawNames : GetBestBidAsk(raw) = None
        /\ reg = EmptyDict
        /\ conns = EmptyDict

\* a shutdown that had to cancel the tasks of both markets
C3_Witness == ev.op = "close" /\ ev.n = 2

\* C4: an active market that received a valid message since it was
\* activated has a stored quote with the bid and ask price of the last one.
C4_LatestQuoteStored ==
    \A raw \in RawNames :
        LET m == Upper(raw)
        IN (IsActive(Prov, m) /\ Has(received, m)) =>
              /\ GetBestBidAsk(raw) # None
              /\ GetBestBidAsk(raw)[1].bid_price = received[m].b[1].p
              /\ GetBestBidAsk(raw)[1].ask_price = received[m].a[1].p

\* the quote of a market whose connection was lost is still the last received
C4_Witness ==
    \E m \in Markets :
        /\ IsActive(Prov, m)
        /\ Has(received, m)
        /\ Has(reg, m)
        /\ tasks[reg[m]].pc = "sleep10"
        /\ data[m].bid_price = "99"

\* d counted in units of 10^e, for e no greater than the exponent of d
Units(d, e) == d.c * Pow10(d.e - e)

\* q is a multiple of step, and no multiple of step is nearer to a / b
NearestStepMultiple(q, a, b, step) ==
    LET e == Min({q.e + b.e, a.e, step.e + b.e})
        qb == q.c * b.c * Pow10(q.e + b.e - e)
        sb == step.c * b.c * Pow10(step.e + b.e - e)
        f == Min({q.e, step.e})
    IN /\ Units(q, f) % Units(step, f) = 0
       /\ 2 * (qb - Units(a, e)) <= sb
       /\ 2 * (Units(a, e) - qb) <= sb

\* the calls that are suspended in place_order
Placing == { c \in Callers : req[c].pc = "placing" }

\* C5: whenever execute places an order, its price is the best bid of the
\* quote it read for a buy alias and the best ask for a sell alias, never the
\* last price of the market object, and its quantity is the amount divided
\* by that price, rounded to the size step of the market.
C5_PriceOfQuoteQuantityOfStep ==
    \A c \in Placing :
        LET r == req[c]
            order == r.order[1]
            market == r.cfg[1]
        IN /\ IsBuy(r.side) => order.price = DecOf(r.quote[1].bid_price)
           /\ IsSell(r.side) => order.price = DecOf(r.quote[1].ask_price)
           /\ IsBuy(r.side) \/ IsSell(r.side)
           /\ order.price # DecOf(market.last)
           /\ NearestStepMultiple(order.amount_of_synthetic, DecOf(r.amount), order.price,
                                  DecOf(market.cfg[1].min_order_size_change))

\* C6: execute places an order only for a market that has a stored quote; a
\* call that found none logged QuoteUnavailable, returned None and did not
\* call place_order, whether the market object came from the cache or from
\* a fetch; and only a market whose connection was established has a quote.
C6_NoQuoteNoOrder ==
    /\ \A c \in Placing : Has(data, req[c].m) /\ req[c].quote # None
    /\ (out.op = "execute" /\ ~Has(data, out.m)) =>
          /\ out.placed = 0
          /\ out.ret = None
          /\ out.read => out.log = "QuoteUnavailable"
    /\ \A m \in Markets : Has(data, m) => Has(conns, m)

\* execute refreshed the market object of a market whose only connection
\* attempt failed, and found no quote
C6_Witness ==
    /\ out.op = "execute"
    /\ out.fetches = 1
    /\ out.log = "QuoteUnavailable"
    /\ ~Has(conns, out.m)
    /\ \E t \in TaskIds : tasks[t].m = out.m /\ tasks[t].pc = "sleep10"

\* C7: the quantity of a placed order is the quantity computed at line 68
\* and is not below the minimum order size of the market; a call whose
\* quantity was below it logged BelowMinimumSize, returned None and did not
\* call place_order.
C7_NeverBelowMinimum ==
    /\ \A c \in Placing :
          LET sizes == req[c].cfg[1].cfg[1]
              quantity == req[c].order[1].amount_of_synthetic
          IN /\ ~DecLess(quantity, DecOf(sizes.min_order_size))
             /\ Some(quantity) = Quantity(req[c].amount, req[c].order[1].price, sizes)
    /\ (/\ out.op = "execute"
        /\ out.qty # None
        /\ DecLess(out.qty[1], DecOf(out.cfg[1].cfg[1].min_order_size))) =>
          /\ out.log = "BelowMinimumSize"
          /\ out.ret = None
          /\ out.placed = 0

\* 50 at a price of 100 against a minimum of 1 and a step of 0.5
C7_Witness ==
    /\ out.op = "execute"
    /\ out.log = "BelowMinimumSize"
    /\ out.qty = Some(Dec(5, -1))

\* the get_market_object calls for market m that await the bulk fetch
Fetching(m) ==
    { c \in Callers : /\ req[c].op = "get_market_object"
                      /\ req[c].pc = "fetching"
                      /\ req[c].m = m }

\* C8 as stated: of the callers of get_market_object for one market, at
\* most one has a bulk fetch in flight.
C8_OneRefreshInFlight == \A m \in RawNames : Cardinality(Fetching(m)) <= 1

\* C8 amended: every get_market_object call issues at most one bulk fetch,
\* none when it found a fresh entry, and returns the entry the cache holds
\* for its market when it returns.
C8_OneRefreshPerCall ==
    /\ \A c \in Callers : req[c].fetches <= 1
    /\ out.op = "get_market_object" =>
          /\ out.fetches <= 1
          /\ out.hit => out.fetches = 0
          /\ out.ret = Lookup(Meta, out.m)

\* a call returns from its own fetch while another caller's fetch for the
\* same market is still in flight
C8_Witness ==
    /\ out.op = "get_market_object"
    /\ out.fetches = 1
    /\ out.ret # None
    /\ Fetching(out.m) # {}

\* market m has an entry younger than the cache duration
YoungEntry(m) ==
    /\ Has(mcache, m)
    /\ Has(mts, m)
    /\ now - mts[m] < CACHE_DURATION_SECONDS

\* C9: a get_market_object call returns without a fetch exactly when its
\* market has an entry younger than 60 seconds, and then returns that
\* entry; any other call awaits one bulk fetch and returns the entry the
\* cache holds after it, or None.
C9_FreshOrOneFetch ==
    [][/\ (req' = req /\ out'.op = "get_market_object") =>
             /\ YoungEntry(out'.m)
             /\ out'.fetches = 0
             /\ out'.ret = Some(mcache[out'.m])
             /\ mcache' = mcache
       /\ \A c \in Callers :
             /\ (req[c] = NoReq /\ req'[c].op = "get_market_object") =>
                   /\ ~YoungEntry(req'[c].m)
                   /\ req'[c].pc = "fetching"
                   /\ req'[c].fetches = 1
             /\ (req[c].op = "get_market_object" /\ req'[c] = NoReq) =>
                   /\ out'.op = "get_market_object"
                   /\ out'.fetches = 1
                   /\ out'.ret = IF Has(mcache', out'.m) THEN Some(mcache'[out'.m])
                                 ELSE None
      ]_vars

\* an entry that is 30 seconds old is returned without a fetch
C9_Witness ==
    /\ out.op = "get_market_object"
    /\ out.fetches = 0
    /\ out.ret # None
    /\ now - mts[out.m] = TickSeconds

\* C10: a get_markets call that returns without a fetch found an entry
\* younger than 60 seconds: an empty cache, or one whose entries are all
\* stale, is refreshed first.
C10_RefreshesEmptyOrStale ==
    (out.op = "get_markets" /\ out.fetches = 0) =>
        \E m \in DOMAIN mcache : YoungEntry(m)

\* the markets of list whose volume is a positive number
RECURSIVE PositiveVolume(_)
PositiveVolume(list) ==
    IF list = << >> THEN << >>
    ELSE IF VolumeOf(Head(list)) > 0
    THEN << Head(list) >> \o PositiveVolume(Tail(list))
    ELSE PositiveVolume(Tail(list))

\* C11: the list get_markets returns is the cached markets with a positive
\* volume, by descending volume, cut to the first top_n when top_n is given.
C11_SortedPositiveVolumes ==
    out.op = "get_markets" =>
        LET sorted == SortByVolume(PositiveVolume(Values(Meta, 1)))
        IN out.ret = Some(IF out.top = -1 THEN sorted ELSE Prefix(sorted, out.top))

\* the market object execute got is missing or has no trading_config
NoConfiguration(config) == config = None \/ config[1].cfg = None

\* C12: an execute call whose market object is absent after the lookup, or
\* has no trading configuration, logged ConfigurationUnavailable and
\* returned None without reading the quote store or calling place_order;
\* place_order is only called with a configuration.
C12_NoConfigurationNoOrder ==
    /\ \A c \in Placing : ~NoConfiguration(req[c].cfg)
    /\ (out.op = "execute" /\ NoConfiguration(out.cfg)) =>
          /\ out.log = "ConfigurationUnavailable"
          /\ ~out.read
          /\ out.quote = None
          /\ out.ret = None
          /\ out.placed = 0

\* the fetch failed and left no market object, while the market has a quote
C12_Witness ==
    /\ out.op = "execute"
    /\ out.fetches = 1
    /\ out.cfg = None
    /\ out.log = "ConfigurationUnavailable"
    /\ Has(data, out.m)

\* the side is one of the aliases, compared without case
Recognized(side) == Lower(side) \in {"bb", "buy", "ba", "sell"}

\* quotes that have a price on one side of the book only
OneSided ==
    { [bid_price |-> b, bid_qty |-> "0", ask_price |-> a, ask_qty |-> "0", timestamp |-> 7] :
        b \in {"", "100"}, a \in {"", "101"} }
    \ { [bid_price |-> "100", bid_qty |-> "0", ask_price |-> "101", ask_qty |-> "0",
         timestamp |-> 7] }

\* the market objects the metadata source can send
MarketObjects == UNION { { resp[i] : i \in DOMAIN resp } : resp \in Responses }

\* C13 as stated: every execute call with an unrecognized side logged
\* InvalidSide and placed no order.
C13_UnrecognizedSideIsInvalidSide ==
    (out.op = "execute" /\ ~Recognized(out.side)) =>
        /\ out.log = "InvalidSide"
        /\ out.placed = 0

\* C13 amended: an execute call with an unrecognized side places no order
\* and returns None, and logged InvalidSide if it had found the
\* configuration and a quote; a recognized side whose side of the quote has
\* no price gives QuoteUnavailable and no order.
C13_UnrecognizedSideNoOrder ==
    /\ \A c \in Placing : Recognized(req[c].side)
    /\ (out.op = "execute" /\ ~Recognized(out.side)) =>
          /\ out.placed = 0
          /\ out.ret = None
          /\ out.quote # None => out.log = "InvalidSide"
          /\ out.quote = None => out.log \in {"ConfigurationUnavailable", "QuoteUnavailable"}
    /\ \A quote \in OneSided, side \in Sides, market \in MarketObjects :
          (/\ Recognized(side)
           /\ market.cfg # None
           /\ (IF Lower(side) \in {"bb", "buy"} THEN quote.bid_price ELSE quote.ask_price) = "") =>
             PlanOrder([NoReq EXCEPT !.side = side, !.amount = "1000.0"], Some(market),
                       Some(quote)) = Plan("QuoteUnavailable", None, None)

\* a call with the side "long" on a market with configuration and quote
C13_Witness ==
    /\ out.op = "execute"
    /\ out.side = "long"
    /\ out.quote # None
    /\ out.log = "InvalidSide"

\* C14: an execute call has no place_order call behind it while it runs, so
\* the one it is suspended in is its first; that call has post_only set; a
\* returned call made at most one, none if it computed no quantity or one
\* below the minimum, and exactly one if the placement was answered, with
\* an order or with a rejection.
C14_AtMostOnePostOnlyPlacement ==
    /\ \A c \in Callers : req[c].placed = 0
    /\ \A c \in Placing : req[c].order[1].post_only
    /\ out.op = "execute" =>
          /\ out.placed <= 1
          /\ (out.qty = None \/ out.log = "BelowMinimumSize") => out.placed = 0
          /\ out.log \in {"OrderPlaced", "InsufficientBalance", "PrecisionError"} =>
                out.placed = 1
          /\ out.ret # None => out.placed = 1

\* a rejected placement: one call of place_order, no order id
C14_Witness ==
    /\ out.op = "execute"
    /\ out.placed = 1
    /\ out.ret = None
    /\ out.log = "InsufficientBalance"

\* C15: every execute call returns an order id or None, never an exception:
\* it logged one of the outcomes of lines 31-94, returned the id exactly
\* when the order was placed, and a price of zero (the division of line 68
\* raising) ended in the handler of line 87 with None and no order.
C15_AlwaysReturns ==
    out.op = "execute" =>
        /\ out.ret \in {None, Some("order-id")}
        /\ out.log \in {"ConfigurationUnavailable", "QuoteUnavailable", "InvalidSide",
                         "BelowMinimumSize", "UnexpectedError", "InsufficientBalance",
                         "PrecisionError", "OrderPlaced"}
        /\ out.ret # None <=> out.log = "OrderPlaced"
        /\ (/\ out.quote # None
            /\ Recognized(out.side)
            /\ (IF Lower(out.side) \in {"bb", "buy"} THEN out.quote[1].bid_price
                ELSE out.quote[1].ask_price) = "0") =>
              /\ out.log = "UnexpectedError"
              /\ out.ret = None
              /\ out.placed = 0

\* a buy against a stored bid price of zero
C15_Witness ==
    /\ out.op = "execute"
    /\ out.quote # None
    /\ out.quote[1].bid_price = "0"
    /\ out.side = "bb"
    /\ out.log = "UnexpectedError"
    /\ out.placed = 0

C17_ActiveFollowsFlags ==
    [][/\ GetActiveStreams' # GetActiveStreams =>
             \/ call' # call
             \/ ev'.op \in {"start", "stop", "close"}
       /\ GetActiveStreams' = { m \in Markets : IsActive(Prov, m)' }
       /\ \A c \in Callers :
             /\ call'[c].op = "close" => GetActiveStreams' = {}
             /\ call'[c].op = "stop" =>
                   \A k \in 1 .. Len(call'[c].ms) :
                       (k <= call'[c].i \/ call'[c].pc = "gather") =>
                           Upper(call'[c].ms[k]) \notin GetActiveStreams'
       /\ ev'.op = "stop" => ev'.ms \cap GetActiveStreams' = {}
       /\ ev'.op = "close" => GetActiveStreams' = {}
      ]_vars

\* a market whose connection never succeeded waits to retry and is active
C17_Witness ==
    \E m \in GetActiveStreams :
        /\ Has(reg, m)
        /\ tasks[reg[m]].pc = "sleep10"
        /\ ~Has(conns, m)
        /\ ~Has(data, m)

\* C18: a start_streams call that finds a market stopped, or the provider
\* shut down, finds no live task for it, and returns with the provider
\* running, the market active and exactly one live task for it, newly
\* created and registered, whose first step goes on to connect.
C18_RestartSpawnsFreshTask ==
    [][ev'.op = "start" =>
         \A m \in ev'.ms :
             (StoppedMarket(m) \/ ~running) =>
                 /\ LiveTasksOf(m) = {}
                 /\ running'
                 /\ IsActive(Prov, m)'
                 /\ Has(reg', m)
                 /\ tasks'[reg'[m]] = NewTask(m)
                 /\ LiveTasksOf(m)' = {reg'[m]}
                 /\ (LoopHead(Prov, reg[m]).tasks[reg[m]].pc = "connecting")'
      ]_vars

\* start_streams returned for a market that a stop had left inactive, and
\* created its new task
C18_Witness ==
    /\ ev.op = "start"
    /\ \E m \in ev.again : Has(reg, m) /\ tasks[reg[m]] = NewTask(m) /\ IsActive(Prov, m)

\* C19: a step of a start_streams or stop_specific_streams call (its
\* beginning, its resumption after conn.close() or gather, its return)
\* leaves the flag, the registered task, the connection and the quote of
\* every market outside its argument as they were.
C19_OtherMarketsUntouched ==
    [][\A m \in Markets :
          LET Entry(d) == IF Has(d, m) THEN << d[m] >> ELSE << >>
              TaskOf(r, ts) == IF Has(r, m) THEN << ts[r[m]] >> ELSE << >>
          IN (\/ ev'.op \in {"start", "stop"} /\ m \notin ev'.ms
              \/ \E c \in Callers : /\ call'[c] # call[c]
                                      /\ call'[c].op = "stop"
                                      /\ m \notin MarketsOf(call'[c].ms)) =>
                 /\ Entry(active') = Entry(active)
                 /\ Entry(reg') = Entry(reg)
                 /\ Entry(conns') = Entry(conns)
                 /\ Entry(data') = Entry(data)
                 /\ TaskOf(reg', tasks') = TaskOf(reg, tasks)
                 /\ TaskOf(conns', tasks') = TaskOf(conns, tasks)
      ]_vars

\* a stop that cancelled a task has returned and the other market is still
\* active, connected and has its quote
C19_Witness ==
    /\ ev.op = "stop"
    /\ ev.n = 1
    /\ \E x \in Markets \ ev.ms :
          /\ IsActive(Prov, x)
          /\ Has(data, x)
          /\ Has(reg, x)
          /\ tasks[reg[x]].pc = "recv"
          /\ tasks[reg[x]].ws = "open"

\* C20: a quote is written only for a market whose flag is set at the
\* write; a quote received for a market whose flag is cleared is skipped,
\* and the step leaves the store with no entry it did not have.
C20_WriteOnlyWhileActive ==
    [][\A m \in Markets :
          /\ (Has(data', m) /\ (Has(data, m) => data'[m] # data[m])) =>
                IsActive(Prov, m) /\ IsActive(Prov, m)'
          /\ (ev'.op = "skipped" /\ m \in ev'.ms) =>
                /\ ~IsActive(Prov, m)
                /\ Has(data', m) => (Has(data, m) /\ data'[m] = data[m])
      ]_vars

\* a task that no stop could cancel received a quote after the flag of its
\* market was cleared, and left the store empty
C20_Witness ==
    /\ ev.op = "skipped"
    /\ \A m \in ev.ms : ~Has(data, m) /\ Has(received, m)

\* C21: the quote of a market changes only to the prices of a decodable
\* snapshot of that market whose best bid and best ask prices are both
\* non-empty, and every stored quote has a non-empty bid price and a
\* non-empty ask price.
C21_StoreChangesOnlyByPricedSnapshot ==
    [][\A m \in Markets :
          /\ (Has(data', m) /\ (Has(data, m) => data'[m] # data[m])) =>
                /\ Has(received', m)
                /\ received'[m].json
                /\ received'[m].type = "SNAPSHOT"
                /\ received'[m].m = m
                /\ Len(received'[m].b) > 0 /\ Len(received'[m].a) > 0
                /\ received'[m].b[1].p # "" /\ received'[m].a[1].p # ""
                /\ data'[m].bid_price = received'[m].b[1].p
                /\ data'[m].ask_price = received'[m].a[1].p
          /\ Has(data', m) => data'[m].bid_price # "" /\ data'[m].ask_price # ""
      ]_vars

\* a listening task replaced the quote of its market by a later snapshot
\* that carries prices and no quantities
C21_Witness ==
    \E m \in Markets :
        /\ Has(data, m) /\ Has(reg, m)
        /\ tasks[reg[m]].pc = "recv"
        /\ data[m].bid_price = "99"
        /\ data[m].bid_qty = "0"
        /\ received[m].b[1].p = "99"

\* C22: a task that is not cancelled, of a market whose flag is set while
\* the provider runs, does not finish in a step that leaves the flag set:
\* a failed connection attempt and a lost connection lead to the 10 s
\* backoff, a receive-path error to the 5 s wait, the leaving of the
\* connection and then the backoff, and the backoff to another attempt.
C22_SupervisedTaskKeepsRetrying ==
    [][\A t \in TaskIds :
          LET m == tasks[t].m
              pc == tasks[t].pc
              next == tasks'[t].pc
          IN (/\ Live(tasks[t]) /\ ~tasks[t].cancel /\ ~tasks'[t].cancel
              /\ ShouldRun(Prov, m) /\ ShouldRun(Prov, m)') =>
                 /\ Live(tasks'[t])
                 /\ tasks'[t].m = m
                 /\ next # pc =>
                       /\ pc = "new" => next = "connecting"
                       /\ pc = "connecting" => next \in {"recv", "sleep10"}
                       /\ pc = "recv" => next \in {"sleep5", "sleep10"}
                       /\ pc = "sleep5" => next \in {"leaving", "sleep10"}
                       /\ pc = "leaving" => next = "sleep10"
                       /\ pc = "sleep10" => next = "connecting"
      ]_vars

\* the task of an active market lost its connection, waited, and is making
\* another connection attempt
C22_Witness ==
    \E m \in Markets :
        /\ ShouldRun(Prov, m)
        /\ Has(reg, m)
        /\ tasks[reg[m]].pc = "connecting"
        /\ tasks[reg[m]].ws = "closed"
        /\ ~tasks[reg[m]].cancel

\* C23: a task that is receiving on an open connection, is not cancelled and
\* whose market stays wanted, is still receiving on that connection after
\* any step, whatever message arrived, and a step in which no valid message
\* arrived leaves the quote of its market as it was.
C23_MalformedMessageKeepsConnection ==
    [][\A t \in TaskIds :
          LET m == tasks[t].m
          IN (/\ tasks[t].pc = "recv" /\ tasks[t].ws = "open"
              /\ ~tasks[t].cancel /\ ~tasks'[t].cancel
              /\ ShouldRun(Prov, m) /\ ShouldRun(Prov, m)') =>
                 /\ tasks'[t].pc = "recv"
                 /\ tasks'[t].m = m
                 /\ received' = received =>
                        /\ Has(data', m) = Has(data, m)
                        /\ Has(data, m) => data'[m] = data[m]
      ]_vars

\* C24: in the step in which a task finishes, whatever ended it, the quote
\* and the connection entry of its market are gone from the provider.
C24_FinishingTaskRemovesItsEntries ==
    [][\A t \in TaskIds :
          (Live(tasks[t]) /\ ~Live(tasks'[t])) =>
              /\ ~Has(data', tasks[t].m)
              /\ ~Has(conns', tasks[t].m)
      ]_vars

\* C25: when stop_specific_streams has returned, which it does normally, no
\* task is cancelled and unfinished, and no market of its argument has an
\* unfinished task.
C25_StopReturnsAfterCancelledTasksFinished ==
    ev.op = "stop" =>
        /\ \A t \in TaskIds : Live(tasks[t]) => ~tasks[t].cancel
        /\ \A m \in ev.ms : LiveTasksOf(m) = {}

\* a stop of two markets returned after it cancelled and awaited both tasks
C25_Witness ==
    /\ ev.op = "stop"
    /\ ev.n = 2
    /\ ev.ms = Markets
    /\ \A t \in TaskIds : ~Live(tasks[t])

\* C26: the quote, the connection entry and the registry entry of a stopped
\* market are removed only in a step after which the market has no
\* unfinished task.
C26_StoppedMarketCleanedAfterTaskExit ==
    [][\A m \in Markets :
          (/\ StoppedMarket(m)'
           /\ \/ Has(data, m) /\ ~Has(data', m)
              \/ Has(conns, m) /\ ~Has(conns', m)
              \/ Has(reg, m) /\ ~Has(reg', m)) =>
              LiveTasksOf(m)' = {}
      ]_vars

\* C27: the quantity of every order handed to place_order is an integer
\* multiple of the size step of the market object execute used.
C27_QuantityMultipleOfStep ==
    \A c \in Placing :
        LET q == req[c].order[1].amount_of_synthetic
            step == DecOf(req[c].cfg[1].cfg[1].min_order_size_change)
            f == Min({q.e, step.e})
        IN Units(q, f) % Units(step, f) = 0

\* C28: a step in which a bulk refresh stored its answer leaves every entry
\* of the metadata cache with the time of that refresh, and a market object
\* that get_market_object returns in such a step is an entry of that time.
C28_RefreshLeavesNoOlderEntry ==
    [][mts' # mts =>
          /\ \A name \in DOMAIN mts' : mts'[name] = now'
          /\ DOMAIN mcache' = DOMAIN mts'
          /\ (out'.op = "get_market_object" /\ out'.ret # None) =>
                 Has(mts', out'.m) /\ mts'[out'.m] = now'
      ]_vars

\* C29: once no start, stop or close call is in progress, every market that
\* get_active_streams reports has a task that has not finished.
C29_ActiveMarketsSupervisedWhenQuiet ==
    (\A c \in Callers : call[c] = Idle) =>
        \A m \in GetActiveStreams : LiveTasksOf(m) # {}

\* C30: when stop_specific_streams has returned, the task registry has no
\* entry for any market of its argument.
C30_StopUnregistersEveryMarket ==
    ev.op = "stop" => \A m \in ev.ms : ~Has(reg, m)

\* C31: while a market stays wanted, a step in which no valid message of
\* it is stored (a connection loss, a failed attempt, a backoff, a new
\* attempt) leaves its quote as it was, timestamp included, and
\* get_best_bid_ask returns that quote after the step.
C31_QuoteSurvivesConnectionLoss ==
    [][\A m \in Markets :
          (/\ ShouldRun(Prov, m) /\ ShouldRun(Prov, m)'
           /\ Has(received, m) => (Has(received', m) /\ received'[m] = received[m])
           /\ Has(data, m)) =>
              /\ Has(data', m)
              /\ data'[m] = data[m]
              /\ GetBestBidAsk(m)' = Some(data[m])
      ]_vars

\* the task of an active market lost its connection, failed or waited, and
\* the quote with the timestamp of the last snapshot is still returned
C31_Witness ==
    \E m \in Markets :
        /\ ShouldRun(Prov, m)
        /\ Has(reg, m)
        /\ tasks[reg[m]].pc \in {"sleep10", "connecting"}
        /\ tasks[reg[m]].ws = "closed"
        /\ Has(data, m)
        /\ data[m].timestamp = 7
        /\ GetBestBidAsk(m) = Some(data[m])

\* C32: for every order handed to place_order the amount is at least the
\* minimum size times the price (the unrounded quantity is not below the
\* minimum), and the quantity times the price is no more than the amount.
C32_RoundingNeverLiftsToMinimum ==
    \A c \in Placing :
        LET amount == DecOf(req[c].amount)
            order == req[c].order[1]
            q == order.amount_of_synthetic
            minimum == DecOf(req[c].cfg[1].cfg[1].min_order_size)
        IN /\ ~DecLess(amount, Dec(minimum.c * order.price.c, minimum.e + order.price.e))
           /\ ~DecLess(amount, Dec(q.c * order.price.c, q.e + order.price.e))

\* C33: a get_market_object call that awaited a bulk fetch returns (it does
\* not raise) whatever the fetch did; no entry is lost, an entry either
\* keeps its object and timestamp or carries the time of the fetch; the
\* call returns the entry of its market whenever there was one before the
\* fetch, and when the cache is left as it was it returns that previous
\* entry, stale or not, or None if there is none.
C33_FailedFetchServesPreviousEntry ==
    [][\A c \in Callers :
          (req[c].op = "get_market_object" /\ req[c].pc = "fetching" /\ req'[c] = NoReq) =>
              /\ out'.op = "get_market_object"
              /\ out'.m = req[c].m
              /\ \A name \in DOMAIN mcache :
                    /\ Has(mcache', name) /\ Has(mts', name)
                    /\ \/ mcache'[name] = mcache[name] /\ mts'[name] = mts[name]
                       \/ mts'[name] = now'
              /\ Has(mcache, out'.m) => out'.ret # None
              /\ (mcache' = mcache /\ mts' = mts) =>
                    out'.ret = IF Has(mcache, out'.m) THEN Some(mcache[out'.m]) ELSE None
      ]_vars

\* every entry of the cache is older than the duration although a call has
\* just awaited a fetch: the fetch failed, and the call returned the stale
\* entry of its market
C33_Witness ==
    /\ out.op = "get_market_object"
    /\ out.fetches = 1
    /\ Has(mcache, out.m)
    /\ out.ret = Some(mcache[out.m])
    /\ \A name \in DOMAIN mts : now - mts[name] >= CACHE_DURATION_SECONDS

====
